---- MODULE Spec2Model ----
(***************************************************************************)
(* A model of package conf8n (config.go, constructors.go and the two       *)
(* helpers getValueWithCompositeKey / toStrMap).                           *)
(*                                                                         *)
(* Go values of static type interface{} are records [t |-> type, v |-> x]: *)
(* t is the dynamic type; for a scalar x is the payload, for a slice or a  *)
(* map x is the address of the object in `heap` (0 is the nil slice/map).  *)
(* Strings are sequences of one-character strings, so that strings.Split   *)
(* is computed and not assumed.                                            *)
(***************************************************************************)
EXTENDS Integers, Sequences, FiniteSets, TLC

VARIABLES heap, conf, sub, val, its, pc, inp, out

vars == <<heap, conf, sub, val, its, pc, inp, out>>

(***************************************************************************)
(* Bounds of the model.                                                    *)
(***************************************************************************)
\* the number of '.'-separated chunks of a key handed to Get
MaxChunks == 2
\* Next() calls made on an iterator after the documented loop has ended
MaxExtraNext == 2
\* the number of elements of a list
MaxLen == 2

(***************************************************************************)
(* Values                                                                  *)
(***************************************************************************)
SEP == "."

Nil == [t |-> "nil", v |-> 0]

VInt(n) == [t |-> "int", v |-> n]

VStr(s) == [t |-> "string", v |-> s]

\* a float64 with the numeric value n
VFloat(n) == [t |-> "float64", v |-> n]

VBool(b) == [t |-> "bool", v |-> b]

ScalarTypes == {"nil", "int", "string", "float64", "bool"}

\* the empty string and the strings used as map keys and key chunks
Empty == << >>

sA == <<"a">>

sB == <<"b">>

sAB == <<"a", ".", "b">>

(***************************************************************************)
(* strings.Split(s, sep) for a one-character separator: the substrings     *)
(* between the separators, one more than there are separators.             *)
(***************************************************************************)
\* a split that drops empty substrings, as strings.FieldsFunc does
RECURSIVE Split_DropEmpty(_, _)
Split_DropEmpty(s, sep) ==
    IF \A i \in 1..Len(s) : s[i] # sep
    THEN IF Len(s) = 0 THEN << >> ELSE <<s>>
    ELSE LET i == CHOOSE j \in 1..Len(s) :
                      s[j] = sep /\ \A k \in 1..(j - 1) : s[k] # sep
         IN  (IF i = 1 THEN << >> ELSE <<SubSeq(s, 1, i - 1)>>)
             \o Split_DropEmpty(SubSeq(s, i + 1, Len(s)), sep)

RECURSIVE Split(_, _)
Split(s, sep) ==
    IF \A i \in 1..Len(s) : s[i] # sep
    THEN <<s>>
    ELSE LET i == CHOOSE j \in 1..Len(s) :
                      s[j] = sep /\ \A k \in 1..(j - 1) : s[k] # sep
         IN  <<SubSeq(s, 1, i - 1)>> \o Split(SubSeq(s, i + 1, Len(s)), sep)

\* the string chunks[1] SEP chunks[2] SEP ... : the keys handed to Get
RECURSIVE Join(_)
Join(chunks) ==
    IF Len(chunks) = 0 THEN Empty
    ELSE IF Len(chunks) = 1 THEN chunks[1]
    ELSE chunks[1] \o <<SEP>> \o Join(Tail(chunks))

(***************************************************************************)
(* The heap: a sequence of objects, an address is an index.                *)
(*   [k |-> "strmap", m |-> f]   map[string]interface{}                    *)
(*   [k |-> "imap",   m |-> f]   map[interface{}]interface{}               *)
(*   [k |-> "slice",  a |-> s]   the backing array of a []interface{}      *)
(*   iterator objects, see below                                           *)
(***************************************************************************)
Alloc(h, obj) == [h |-> Append(h, obj), ret |-> Len(h) + 1]

\* the entries of the map at address p; a nil map has none
MapOf(h, p) == IF p = 0 THEN << >> ELSE h[p].m

\* v, ok := m[key]
MapIndex(h, p, key) ==
    LET f == MapOf(h, p)
    IN  IF key \in DOMAIN f THEN [v |-> f[key], ok |-> TRUE]
                            ELSE [v |-> Nil, ok |-> FALSE]

\* the elements of the slice at address p; a nil slice has none
SliceOf(h, p) == IF p = 0 THEN << >> ELSE h[p].a

(***************************************************************************)
(* toStrMap: a map[string]interface{} is returned as it is; a              *)
(* map[interface{}]interface{} is copied into a fresh string-keyed map,    *)
(* unless one of its keys is not a string; anything else gives nil.  The   *)
(* map made on line 75 is allocated here only when it is returned: on the  *)
(* nil return of line 80 nothing refers to it any more.                    *)
(***************************************************************************)
toStrMap_Drain(h, value) ==
    IF value.t = "strmap" THEN [h |-> h, ret |-> value.v]
    ELSE IF value.t = "imap" THEN
        LET asIMap == MapOf(h, value.v)
        IN  IF \A k \in DOMAIN asIMap : k.t = "string"
            THEN LET r == Alloc(h, [k |-> "strmap",
                                    m |-> [s \in {k.v : k \in DOMAIN asIMap}
                                             |-> asIMap[VStr(s)]]])
                 IN  IF value.v = 0 THEN r
                     ELSE [r EXCEPT !.h[value.v].m = << >>]
            ELSE [h |-> h, ret |-> 0]
    ELSE [h |-> h, ret |-> 0]

toStrMap(h, value) ==
    IF value.t = "strmap" THEN [h |-> h, ret |-> value.v]
    ELSE IF value.t = "imap" THEN
        LET asIMap == MapOf(h, value.v)
        IN  IF \A k \in DOMAIN asIMap : k.t = "string"
            THEN Alloc(h, [k |-> "strmap",
                           m |-> [s \in {k.v : k \in DOMAIN asIMap}
                                    |-> asIMap[VStr(s)]]])
            ELSE [h |-> h, ret |-> 0]
    ELSE [h |-> h, ret |-> 0]

(***************************************************************************)
(* getValueWithCompositeKey(m, keyChunks, current); m is the address of a  *)
(* string-keyed map.  keyChunks[current] is a runtime error when current   *)
(* is not an index of keyChunks: the result then has panic set.            *)
(***************************************************************************)
RECURSIVE getValueWithCompositeKey(_, _, _, _)
getValueWithCompositeKey(h, m, keyChunks, current) ==
    IF current >= Len(keyChunks) THEN [h |-> h, ret |-> Nil, panic |-> TRUE]
    ELSE
    LET data == MapIndex(h, m, keyChunks[current + 1]).v
    IN  IF current = Len(keyChunks) - 1
        THEN [h |-> h, ret |-> data, panic |-> FALSE]
        ELSE LET r == toStrMap(h, data)
             IN  IF r.ret # 0
                 THEN getValueWithCompositeKey(r.h, r.ret, keyChunks, current + 1)
                 ELSE [h |-> r.h, ret |-> Nil, panic |-> FALSE]

(***************************************************************************)
(* Config and ConfigValue.  Both structs are written once, when they are   *)
(* made, so a *Config is the record [data |-> address of the map] and a    *)
(* *ConfigValue the record [v |-> value].                                  *)
(***************************************************************************)
NewConfig(fromData) == [data |-> fromData]

ConfigValue(v) == [v |-> v]

\* Config.Get; ret is the *ConfigValue, panic tells a runtime error
Get(h, c, key) ==
    LET l == MapIndex(h, c.data, key)
    IN  IF l.ok THEN [h |-> h, ret |-> ConfigValue(l.v), panic |-> FALSE]
        ELSE LET r == getValueWithCompositeKey(h, c.data, Split(key, SEP), 0)
             IN  [h |-> r.h, ret |-> ConfigValue(r.ret), panic |-> r.panic]

IsSet(cv) == cv.v.t # "nil"

IsSlice(cv) == cv.v.t = "slice"

IsMap(cv) ==
    IF cv.v.t = "strmap" THEN TRUE
    ELSE cv.v.t = "imap"

Raw(cv) == cv.v

\* a Config that takes only a map[string]interface{} as a section
Config_StrMapOnly(h, cv) ==
    [h |-> h, ret |-> NewConfig(IF cv.v.t = "strmap" THEN cv.v.v ELSE 0)]

\* ConfigValue.Config
Config(h, cv) ==
    LET r == toStrMap(h, cv.v)
    IN  [h |-> r.h, ret |-> NewConfig(r.ret)]

(***************************************************************************)
(* The typed accessors of ConfigValue.  A Must result is [ret, err]; the   *)
(* nil error is NoErr.                                                     *)
(***************************************************************************)
NoErr == ""

ConfigValue_Int(cv) == IF cv.v.t = "int" THEN cv.v.v ELSE 0

ConfigValue_String(cv) == IF cv.v.t = "string" THEN cv.v.v ELSE Empty

ConfigValue_Float(cv) == IF cv.v.t = "float64" THEN cv.v.v ELSE 0

ConfigValue_Bool(cv) == IF cv.v.t = "bool" THEN cv.v.v ELSE FALSE

\* a MustInt without the IsSet test
MustInt_NoSetTest(cv) ==
    IF cv.v.t = "int" THEN [ret |-> cv.v.v, err |-> NoErr]
    ELSE [ret |-> 0, err |-> "Value is not int"]

MustInt(cv) ==
    IF ~IsSet(cv) THEN [ret |-> 0, err |-> "Value is not set"]
    ELSE IF cv.v.t = "int" THEN [ret |-> cv.v.v, err |-> NoErr]
    ELSE [ret |-> 0, err |-> "Value is not int"]

MustString(cv) ==
    IF ~IsSet(cv) THEN [ret |-> Empty, err |-> "Value is not set"]
    ELSE IF cv.v.t = "string" THEN [ret |-> cv.v.v, err |-> NoErr]
    ELSE [ret |-> Empty, err |-> "Value is not string"]

MustFloat(cv) ==
    IF ~IsSet(cv) THEN [ret |-> 0, err |-> "Value is not set"]
    ELSE IF cv.v.t = "float64" THEN [ret |-> cv.v.v, err |-> NoErr]
    ELSE [ret |-> 0, err |-> "Value is not float"]

MustBool(cv) ==
    IF ~IsSet(cv) THEN [ret |-> FALSE, err |-> "Value is not set"]
    ELSE IF cv.v.t = "bool" THEN [ret |-> cv.v.v, err |-> NoErr]
    ELSE [ret |-> FALSE, err |-> "Value is not bool"]

\* a DefInt that takes a stored 0 for a missing value
DefInt_ZeroIsUnset(cv, def) ==
    IF cv.v.t = "int" /\ cv.v.v # 0 THEN cv.v.v ELSE def

DefInt(cv, def) == IF cv.v.t = "int" THEN cv.v.v ELSE def

DefString(cv, def) == IF cv.v.t = "string" THEN cv.v.v ELSE def

DefFloat(cv, def) == IF cv.v.t = "float64" THEN cv.v.v ELSE def

DefBool(cv, def) == IF cv.v.t = "bool" THEN cv.v.v ELSE def

Count(h, cv) == IF cv.v.t = "slice" THEN Len(SliceOf(h, cv.v.v)) ELSE 0

(***************************************************************************)
(* Iterators.  An Iterator is the address of a heap object:                *)
(*   [k |-> "ListIterator", a |-> address of the slice, i |-> position]    *)
(*   [k |-> "MapIterator", li |-> address of its *ListIterator,            *)
(*                         m |-> address of the string-keyed map]          *)
(*   [k |-> "EmptyIterator"]                                               *)
(***************************************************************************)
\* mapGetKeys: the keys of m in the order the range statement yields them
mapGetKeys(h, m, order) ==
    Alloc(h, [k |-> "slice", a |-> [j \in 1..Len(order) |-> VStr(order[j])]])

\* the orders in which a range over the map at address m may yield its keys
RangeOrders(h, m) ==
    LET keys == DOMAIN MapOf(h, m)
    IN  {o \in [1..Cardinality(keys) -> keys] : \A k \in keys : \E j \in DOMAIN o : o[j] = k}

\* the orders open to v.Iterate(): those of its map, or none to choose
IterateOrders(h, cv) ==
    LET r == toStrMap(h, cv.v)
    IN  IF cv.v.t # "slice" /\ r.ret # 0 THEN RangeOrders(r.h, r.ret) ELSE {<< >>}

\* ConfigValue.Iterate
Iterate(h, cv, order) ==
    IF cv.v.t = "slice"
    THEN Alloc(h, [k |-> "ListIterator", a |-> cv.v.v, i |-> 0])
    ELSE LET r == toStrMap(h, cv.v)
         IN  IF r.ret # 0
             THEN LET keys == mapGetKeys(r.h, r.ret, order)
                      li == Alloc(keys.h, [k |-> "ListIterator", a |-> keys.ret, i |-> 0])
                  IN  Alloc(li.h, [k |-> "MapIterator", li |-> li.ret, m |-> r.ret])
             ELSE Alloc(r.h, [k |-> "EmptyIterator"])

ListIterator_Finished(h, p) == h[p].i = Len(SliceOf(h, h[p].a))

\* a Next without the Finished test
ListIterator_Next_Unguarded(h, p) == [h EXCEPT ![p].i = @ + 1]

ListIterator_Next(h, p) ==
    IF ~ListIterator_Finished(h, p) THEN [h EXCEPT ![p].i = @ + 1] ELSE h

\* i.a[i.i] is a runtime error when i.i is not an index of i.a
ListIterator_Value(h, p) ==
    IF h[p].i >= 0 /\ h[p].i < Len(SliceOf(h, h[p].a))
    THEN [ret |-> ConfigValue(SliceOf(h, h[p].a)[h[p].i + 1]), panic |-> FALSE]
    ELSE [ret |-> ConfigValue(Nil), panic |-> TRUE]

ListIterator_Index(h, p) == h[p].i

ListIterator_Key(h, p) == Empty

MapIterator_Key(h, p) ==
    LET r == ListIterator_Value(h, h[p].li)
    IN  [ret |-> ConfigValue_String(r.ret), panic |-> r.panic]

\* a Value that reads the key slice and not the map
MapIterator_Value_OfKeys(h, p) == ListIterator_Value(h, h[p].li)

MapIterator_Value(h, p) ==
    LET key == MapIterator_Key(h, p)
    IN  [ret |-> ConfigValue(MapIndex(h, h[p].m, key.ret).v), panic |-> key.panic]

EmptyIterator_Next(h, p) == h

EmptyIterator_Value(h, p) == ConfigValue(Nil)

\* an EmptyIterator that is never finished
EmptyIterator_Finished_Never(h, p) == FALSE

EmptyIterator_Finished(h, p) == TRUE

EmptyIterator_Index(h, p) == 0

EmptyIterator_Key(h, p) == Empty

(***************************************************************************)
(* The Iterator interface: a call goes to the method of the dynamic type;  *)
(* MapIterator has Next, Finished and Index from its embedded              *)
(* *ListIterator.                                                          *)
(***************************************************************************)
Iterator_Next(h, p) ==
    CASE h[p].k = "ListIterator" -> ListIterator_Next(h, p)
      [] h[p].k = "MapIterator" -> ListIterator_Next(h, h[p].li)
      [] h[p].k = "EmptyIterator" -> EmptyIterator_Next(h, p)

Iterator_Finished(h, p) ==
    CASE h[p].k = "ListIterator" -> ListIterator_Finished(h, p)
      [] h[p].k = "MapIterator" -> ListIterator_Finished(h, h[p].li)
      [] h[p].k = "EmptyIterator" -> EmptyIterator_Finished(h, p)

Iterator_Index(h, p) ==
    CASE h[p].k = "ListIterator" -> ListIterator_Index(h, p)
      [] h[p].k = "MapIterator" -> ListIterator_Index(h, h[p].li)
      [] h[p].k = "EmptyIterator" -> EmptyIterator_Index(h, p)

Iterator_Key(h, p) ==
    CASE h[p].k = "ListIterator" -> [ret |-> ListIterator_Key(h, p), panic |-> FALSE]
      [] h[p].k = "MapIterator" -> MapIterator_Key(h, p)
      [] h[p].k = "EmptyIterator" -> [ret |-> EmptyIterator_Key(h, p), panic |-> FALSE]

Iterator_Value(h, p) ==
    CASE h[p].k = "ListIterator" -> ListIterator_Value(h, p)
      [] h[p].k = "MapIterator" -> MapIterator_Value(h, p)
      [] h[p].k = "EmptyIterator" -> [ret |-> EmptyIterator_Value(h, p), panic |-> FALSE]

(***************************************************************************)
(* The data handed to NewConfig.  A tree is written as a literal: a scalar *)
(* value, or [t |-> "slice" | "strmap" | "imap", e |-> its elements or     *)
(* entries]; Load builds it in the heap, as the codecs do (encoding/json   *)
(* gives map[string]interface{} at every level, yaml.v2 gives              *)
(* map[interface{}]interface{} below the top level).                       *)
(***************************************************************************)
LSlice(s) == [t |-> "slice", e |-> s]

LStrMap(f) == [t |-> "strmap", e |-> f]

LIMap(f) == [t |-> "imap", e |-> f]

RECURSIVE Load(_, _)
RECURSIVE LoadSeq(_, _)
RECURSIVE LoadMap(_, _)
Load(h, lit) ==
    IF lit.t \in ScalarTypes THEN [h |-> h, ret |-> lit]
    ELSE IF lit.t = "slice"
    THEN LET r == LoadSeq(h, lit.e)
             a == Alloc(r.h, [k |-> "slice", a |-> r.ret])
         IN  [h |-> a.h, ret |-> [t |-> "slice", v |-> a.ret]]
    ELSE LET r == LoadMap(h, lit.e)
             a == Alloc(r.h, [k |-> lit.t, m |-> r.ret])
         IN  [h |-> a.h, ret |-> [t |-> lit.t, v |-> a.ret]]

LoadSeq(h, s) ==
    IF Len(s) = 0 THEN [h |-> h, ret |-> << >>]
    ELSE LET r == Load(h, Head(s))
             rest == LoadSeq(r.h, Tail(s))
         IN  [h |-> rest.h, ret |-> <<r.ret>> \o rest.ret]

LoadMap(h, f) ==
    IF DOMAIN f = {} THEN [h |-> h, ret |-> << >>]
    ELSE LET k == CHOOSE x \in DOMAIN f : TRUE
             r == Load(h, f[k])
             rest == LoadMap(r.h, [x \in DOMAIN f \ {k} |-> f[x]])
         IN  [h |-> rest.h, ret |-> (k :> r.ret) @@ rest.ret]

\* the partial functions from keys to vals
PFun(keys, vals) == UNION {[d -> vals] : d \in SUBSET keys}

\* the keys handed to Get: up to n chunks, each "", "a" or "b"
Chunks == {Empty, sA, sB}

KeysOf(n) == {Join(c) : c \in UNION {[1..k -> Chunks] : k \in 1..n}}

Keys == KeysOf(MaxChunks)

(***************************************************************************)
(* The trees of the lookup specification: the top level may hold "a" and   *)
(* the literal composite key "a.b"; under "a" sits a scalar, a list or a   *)
(* map of either kind, whose "b" may again be a map.                       *)
(***************************************************************************)
InnerMaps == {LStrMap(sA :> VInt(1)), LIMap(VStr(sA) :> VInt(1))}

Level2 == {Nil, VInt(1)} \cup InnerMaps

Level1 ==
    {Nil, VInt(1), LSlice(<<VInt(1)>>)}
    \cup {LStrMap(f) : f \in PFun({sB}, Level2)}
    \cup {LIMap(f) : f \in PFun({VStr(sB)}, Level2)}
    \cup {LStrMap(sAB :> VInt(1)),
          LStrMap((sAB :> VInt(1)) @@ (sA :> LStrMap(sB :> VInt(2)))),
          LIMap((VStr(sB) :> VInt(1)) @@ (VInt(1) :> VInt(2))),
          LIMap(VInt(1) :> VInt(2))}

LookupTrees ==
    {LStrMap(f @@ g) : f \in PFun({sA}, Level1), g \in PFun({sAB}, {Nil, VInt(2)})}

(***************************************************************************)
(* The lookup specification: a client that holds conf := NewConfig(data)   *)
(* and evaluates  v := conf.Get(p);  sub := v.Config();  sub.Get(q);       *)
(* conf.Get(p + "." + q).  out is the log of the calls made.               *)
(***************************************************************************)
Call(op, recv, arg, r) ==
    [op |-> op, recv |-> recv, arg |-> arg, ret |-> r.ret, panic |-> r.panic]

\* the result of a call that cannot end in a runtime error
Ok(ret) == [ret |-> ret, panic |-> FALSE]

\* the objects a call made and dropped are collected when it returns
Collect(h, n) == SubSeq(h, 1, n)

NoValue == ConfigValue(Nil)

NoConfig == NewConfig(0)

InitLookup ==
    /\ \E tree \in LookupTrees :
          LET r == Load(<< >>, tree)
          IN  /\ heap = r.h
              /\ conf = NewConfig(r.ret.v)
    /\ inp \in [p : Keys, q : Keys]
    /\ sub = NoConfig
    /\ val = NoValue
    /\ its = << >>
    /\ pc = "start"
    /\ out = << >>

GetP ==
    /\ pc = "start"
    /\ LET r == Get(heap, conf, inp.p)
       IN  /\ heap' = Collect(r.h, Len(heap))
           /\ val' = r.ret
           /\ out' = Append(out, Call("Get", conf, inp.p, r))
    /\ pc' = "got"
    /\ UNCHANGED <<conf, sub, its, inp>>

ConfigP ==
    /\ pc = "got"
    /\ LET r == Config(heap, val)
       IN  /\ heap' = r.h
           /\ sub' = r.ret
           /\ out' = Append(out, Call("Config", val, Nil, Ok(r.ret)))
    /\ pc' = "sub"
    /\ UNCHANGED <<conf, val, its, inp>>

GetQ ==
    /\ pc = "sub"
    /\ LET r == Get(heap, sub, inp.q)
       IN  /\ heap' = Collect(r.h, Len(heap))
           /\ out' = Append(out, Call("Get", sub, inp.q, r))
    /\ pc' = "subgot"
    /\ UNCHANGED <<conf, sub, val, its, inp>>

GetPQ ==
    /\ pc = "subgot"
    /\ LET r == Get(heap, conf, inp.p \o <<SEP>> \o inp.q)
       IN  /\ heap' = Collect(r.h, Len(heap))
           /\ out' = Append(out, Call("Get", conf, inp.p \o <<SEP>> \o inp.q, r))
    /\ pc' = "done"
    /\ UNCHANGED <<conf, sub, val, its, inp>>

NextLookup == GetP \/ ConfigP \/ GetQ \/ GetPQ

Spec == InitLookup /\ [][NextLookup]_vars

(***************************************************************************)
(* What the claims speak of, stated apart from the code's own lookup.      *)
(***************************************************************************)
IsMapValue(v) == v.t \in {"strmap", "imap"}

\* the entries of a map value of either kind that have a string key
Entries(h, v) ==
    IF v.t = "strmap" THEN MapOf(h, v.v)
    ELSE LET m == MapOf(h, v.v)
         IN  [s \in {k.v : k \in {x \in DOMAIN m : x.t = "string"}} |-> m[VStr(s)]]

\* the value a section holds under seg; nil when there is none
Child(h, v, seg) ==
    IF IsMapValue(v) /\ seg \in DOMAIN Entries(h, v) THEN Entries(h, v)[seg] ELSE Nil

RECURSIVE Descend(_, _, _)
Descend(h, v, segs) ==
    IF Len(segs) = 0 THEN v ELSE Descend(h, Child(h, v, Head(segs)), Tail(segs))

\* the segments of a key, cut at its separators from the right
RECURSIVE Segments(_)
Segments(key) ==
    IF \A i \in 1..Len(key) : key[i] # SEP THEN <<key>>
    ELSE LET i == CHOOSE j \in 1..Len(key) :
                      key[j] = SEP /\ \A k \in (j + 1)..Len(key) : key[k] # SEP
         IN  Append(Segments(SubSeq(key, 1, i - 1)), SubSeq(key, i + 1, Len(key)))

HasSep(key) == \E i \in 1..Len(key) : key[i] = SEP

RootValue(c) == [t |-> "strmap", v |-> c.data]

\* key is set at the top level of c: present, with a value that is not nil
TopSet(h, c, key) ==
    /\ key \in DOMAIN MapOf(h, c.data)
    /\ MapOf(h, c.data)[key].t # "nil"

\* some segment of the path is missing, or a segment before the last holds no map
Broken(h, c, segs) ==
    \E i \in 1..Len(segs) :
        LET parent == Descend(h, RootValue(c), SubSeq(segs, 1, i - 1))
        IN  \/ ~IsMapValue(parent)
            \/ segs[i] \notin DOMAIN Entries(h, parent)

GetCalls == {i \in DOMAIN out : out[i].op = "Get"}

\* C1 (as claimed): Get returns the value of the full key when that key is set
\* (present and not nil) at the top level, and otherwise the value found by
\* descending through the sections, string-keyed or generic-keyed, segment by segment.
C1_GetTwoSteps ==
    \A i \in GetCalls :
        LET c == out[i].recv
            key == out[i].arg
        IN  out[i].ret =
              ConfigValue(IF TopSet(heap, c, key) THEN MapOf(heap, c.data)[key]
                          ELSE Descend(heap, RootValue(c), Segments(key)))

\* C2: Get never ends in a runtime error, and a key that is not set at the top
\* level and whose path has a missing segment, or a non-map before its last
\* segment, gives a value with IsSet() false and Raw() nil.
C2_GetUnresolvedIsUnset ==
    \A i \in GetCalls :
        LET c == out[i].recv
            key == out[i].arg
        IN  /\ ~out[i].panic
            /\ (~TopSet(heap, c, key) /\ Broken(heap, c, Segments(key)))
                  => /\ ~IsSet(out[i].ret)
                     /\ Raw(out[i].ret) = Nil

\* C2's case: a key of several segments, not set at the top level, whose first
\* segment holds an int, and an empty key, both answered with an unset value
C2_Witness ==
    /\ pc = "done"
    /\ \E i \in GetCalls :
          /\ Len(Segments(out[i].arg)) > 1
          /\ ~TopSet(heap, out[i].recv, out[i].arg)
          /\ Child(heap, RootValue(out[i].recv), Segments(out[i].arg)[1]).t = "int"
          /\ out[i].ret = NoValue
    /\ \E i \in GetCalls : out[i].arg = Empty /\ out[i].ret = NoValue

\* C10 (as claimed): when Get(p) is a map, Get(p).Config().Get(q) is the value of
\* Get(p + "." + q); when it is not, every Get on Get(p).Config() is unset.
C10_SubConfigComposes ==
    pc = "done" =>
        IF IsMap(out[1].ret) THEN out[3].ret = out[4].ret
        ELSE out[3].ret = NoValue

\* none of the three lookups is answered by a literal key that contains '.'
NoLiteralDotted ==
    /\ (inp.p \o <<SEP>> \o inp.q) \notin DOMAIN MapOf(heap, conf.data)
    /\ HasSep(inp.p) => inp.p \notin DOMAIN MapOf(heap, conf.data)
    /\ HasSep(inp.q) => inp.q \notin DOMAIN MapOf(heap, sub.data)

\* C10 (amended): the two lookups agree whenever p + "." + q is not itself a
\* top-level key and neither p nor q, when it contains '.', is itself a key of
\* the map it is looked up in; Config() of a non-map answers every Get unset.
C10_SubConfigComposesAmended ==
    pc = "done" =>
        IF IsMap(out[1].ret) THEN NoLiteralDotted => out[3].ret = out[4].ret
        ELSE out[3].ret = NoValue

\* C10's case: a section reached through a generic-keyed map, and a q answered
\* with a value by both lookups
C10_Witness ==
    /\ pc = "done"
    /\ out[1].ret.v.t = "imap"
    /\ NoLiteralDotted
    /\ out[3].ret = out[4].ret
    /\ out[3].ret.v.t = "int"

(***************************************************************************)
(* The value specification: a client that holds v := conf.Get("a") and     *)
(* either reads it with one typed accessor, or runs the documented loop    *)
(*    for i := v.Iterate(); !i.Finished(); i.Next() { ... }                *)
(* whose body reads i.Index(), i.Key() and i.Value(); after the loop it    *)
(* may call i.Next() again and then reads the iterator once more.          *)
(***************************************************************************)
Scalars ==
    {Nil, VInt(0), VInt(7), VStr(Empty), VStr(sA), VFloat(0), VFloat(2),
     VBool(FALSE), VBool(TRUE)}

Elements == {Nil, VInt(1), VStr(sA)}

Lists == {LSlice(e) : e \in UNION {[1..n -> Elements] : n \in 0..MaxLen}}

MapValues == {Nil, VInt(1)}

ValueTrees ==
    {LStrMap(sA :> x) :
        x \in Scalars \cup Lists
              \cup {LStrMap(f) : f \in PFun({sA, sB, sAB}, MapValues)}
              \cup {LIMap(f) : f \in PFun({VStr(sA), VStr(sB)}, MapValues)}
              \cup {LIMap(VInt(1) :> VInt(2)),
                    LIMap((VStr(sA) :> VInt(1)) @@ (VInt(1) :> VInt(2)))}}

Types == {"int", "string", "float", "bool"}

\* the defaults handed to DefT, and the results of the accessors, are logged
\* with their static type: an int n as VInt(n), and so on
Defaults(T) ==
    CASE T = "int" -> {VInt(0), VInt(5)}
      [] T = "string" -> {VStr(Empty), VStr(sB)}
      [] T = "float" -> {VFloat(0), VFloat(3)}
      [] T = "bool" -> {VBool(FALSE), VBool(TRUE)}

Silent(T, cv) ==
    CASE T = "int" -> VInt(ConfigValue_Int(cv))
      [] T = "string" -> VStr(ConfigValue_String(cv))
      [] T = "float" -> VFloat(ConfigValue_Float(cv))
      [] T = "bool" -> VBool(ConfigValue_Bool(cv))

Def(T, cv, d) ==
    CASE T = "int" -> VInt(DefInt(cv, d.v))
      [] T = "string" -> VStr(DefString(cv, d.v))
      [] T = "float" -> VFloat(DefFloat(cv, d.v))
      [] T = "bool" -> VBool(DefBool(cv, d.v))

Must(T, cv) ==
    CASE T = "int" -> [ret |-> VInt(MustInt(cv).ret), err |-> MustInt(cv).err]
      [] T = "string" -> [ret |-> VStr(MustString(cv).ret), err |-> MustString(cv).err]
      [] T = "float" -> [ret |-> VFloat(MustFloat(cv).ret), err |-> MustFloat(cv).err]
      [] T = "bool" -> [ret |-> VBool(MustBool(cv).ret), err |-> MustBool(cv).err]

InitValue ==
    /\ \E tree \in ValueTrees :
          LET r == Load(<< >>, tree)
          IN  /\ heap = r.h
              /\ conf = NewConfig(r.ret.v)
    /\ inp = [extra |-> 0]
    /\ sub = NoConfig
    /\ val = NoValue
    /\ its = << >>
    /\ pc = "start"
    /\ out = << >>

GetA ==
    /\ pc = "start"
    /\ LET r == Get(heap, conf, sA)
       IN  /\ heap' = Collect(r.h, Len(heap))
           /\ val' = r.ret
           /\ out' = Append(out, Call("Get", conf, sA, r))
    /\ pc' = "got"
    /\ UNCHANGED <<conf, sub, its, inp>>

SilentCall ==
    /\ pc = "got"
    /\ \E T \in Types :
          out' = Append(out, Call("Silent", val, [T |-> T], Ok(Silent(T, val))))
    /\ pc' = "read"
    /\ UNCHANGED <<heap, conf, sub, val, its, inp>>

DefCall ==
    /\ pc = "got"
    /\ \E T \in Types : \E d \in Defaults(T) :
          out' = Append(out, Call("Def", val, [T |-> T, d |-> d], Ok(Def(T, val, d))))
    /\ pc' = "read"
    /\ UNCHANGED <<heap, conf, sub, val, its, inp>>

MustCall ==
    /\ pc = "got"
    /\ \E T \in Types :
          out' = Append(out, Call("Must", val, [T |-> T], Ok(Must(T, val))))
    /\ pc' = "read"
    /\ UNCHANGED <<heap, conf, sub, val, its, inp>>

\* i := v.Iterate()
LoopInit ==
    /\ pc = "got"
    /\ \E order \in IterateOrders(heap, val) :
          LET r == Iterate(heap, val, order)
          IN  /\ heap' = r.h
              /\ its' = <<r.ret>>
    /\ pc' = "test"
    /\ UNCHANGED <<conf, sub, val, inp, out>>

\* !i.Finished()
LoopTest ==
    /\ pc = "test"
    /\ pc' = IF Iterator_Finished(heap, its[1]) THEN "end" ELSE "body"
    /\ UNCHANGED <<heap, conf, sub, val, its, inp, out>>

Read(h, p) ==
    LET key == Iterator_Key(h, p)
        value == Iterator_Value(h, p)
    IN  [ret |-> [finished |-> Iterator_Finished(h, p), index |-> Iterator_Index(h, p),
                  key |-> key.ret, value |-> value.ret],
         panic |-> key.panic \/ value.panic]

\* the loop's body
LoopBody ==
    /\ pc = "body"
    /\ out' = Append(out, Call("Body", its[1], Nil, Read(heap, its[1])))
    /\ pc' = "next"
    /\ UNCHANGED <<heap, conf, sub, val, its, inp>>

\* i.Next()
LoopNext ==
    /\ pc = "next"
    /\ heap' = Iterator_Next(heap, its[1])
    /\ pc' = "test"
    /\ UNCHANGED <<conf, sub, val, its, inp, out>>

\* i.Next() once the loop has ended
ExtraNext ==
    /\ pc = "end"
    /\ inp.extra < MaxExtraNext
    /\ heap' = Iterator_Next(heap, its[1])
    /\ inp' = [inp EXCEPT !.extra = @ + 1]
    /\ UNCHANGED <<conf, sub, val, its, pc, out>>

\* the iterator read after the loop
Probe ==
    /\ pc = "end"
    /\ out' = Append(out, Call("Probe", its[1], Nil, Read(heap, its[1])))
    /\ pc' = "probed"
    /\ UNCHANGED <<heap, conf, sub, val, its, inp>>

NextValue ==
    \/ GetA \/ SilentCall \/ DefCall \/ MustCall
    \/ LoopInit \/ LoopTest \/ LoopBody \/ LoopNext \/ ExtraNext \/ Probe

SpecValue == InitValue /\ [][NextValue]_vars

\* the loop is sequential code: while it runs, its next step is taken
LoopSpec == SpecValue /\ WF_vars(LoopTest \/ LoopBody \/ LoopNext)

(***************************************************************************)
(* Claims about the accessors and the iterators.                           *)
(***************************************************************************)
GoType(T) == IF T = "float" THEN "float64" ELSE T

\* the zero value of T
Zero(T) ==
    CASE T = "int" -> VInt(0)
      [] T = "string" -> VStr(Empty)
      [] T = "float" -> VFloat(0)
      [] T = "bool" -> VBool(FALSE)

NotT(T) ==
    CASE T = "int" -> "Value is not int"
      [] T = "string" -> "Value is not string"
      [] T = "float" -> "Value is not float"
      [] T = "bool" -> "Value is not bool"

\* C3: MustT() gives (v, no error) exactly for a value of type T, the zero value
\* and "Value is not set" exactly for nil, the zero value and "Value is not <T>"
\* exactly for a non-nil value of another type.
C3_MustOutcomes ==
    \A i \in DOMAIN out :
        out[i].op = "Must" =>
            LET T == out[i].arg.T
                cv == out[i].recv
                r == out[i].ret
            IN  /\ (r.err = NoErr) <=> (cv.v.t = GoType(T))
                /\ (r.err = "Value is not set") <=> (cv.v.t = "nil")
                /\ (r.err = NotT(T)) <=> (cv.v.t \notin {"nil", GoType(T)})
                /\ r.err \in {NoErr, "Value is not set", NotT(T)}
                /\ IF cv.v.t = GoType(T) THEN r.ret = cv.v ELSE r.ret = Zero(T)

\* C3's case: MustInt() on an unset value
C3_Witness ==
    \E i \in DOMAIN out :
        /\ out[i].op = "Must"
        /\ out[i].arg.T = "int"
        /\ ~IsSet(out[i].recv)
        /\ out[i].ret = [ret |-> VInt(0), err |-> "Value is not set"]

\* C4: DefT(d) is v for a value of type T and d otherwise; T() is v for a value
\* of type T and the zero value otherwise, so T() = DefT(zero); DefT(d) differs
\* from d only when MustT() succeeds.
C4_DefAndSilent ==
    \A i \in DOMAIN out :
        LET cv == out[i].recv
            r == out[i].ret
        IN  /\ out[i].op = "Def" =>
                  LET T == out[i].arg.T
                      d == out[i].arg.d
                  IN  /\ r = IF cv.v.t = GoType(T) THEN cv.v ELSE d
                      /\ r # d => Must(T, cv).err = NoErr
            /\ out[i].op = "Silent" =>
                  LET T == out[i].arg.T
                  IN  /\ r = IF cv.v.t = GoType(T) THEN cv.v ELSE Zero(T)
                      /\ r = Def(T, cv, Zero(T))

\* C4's case: DefInt(5) on a stored int 0
C4_Witness ==
    \E i \in DOMAIN out :
        /\ out[i].op = "Def"
        /\ out[i].arg = [T |-> "int", d |-> VInt(5)]
        /\ out[i].recv.v = VInt(0)
        /\ out[i].ret = VInt(0)

Bodies == SelectSeq(out, LAMBDA c : c.op = "Body")

Probes == SelectSeq(out, LAMBDA c : c.op = "Probe")

HasIterator == Len(its) = 1

C5_Safe ==
    (val.v.t = "slice" /\ HasIterator) =>
        LET a == SliceOf(heap, val.v.v)
            n == Len(a)
        IN  /\ Count(heap, val) = n
            /\ Iterator_Index(heap, its[1]) \in 0..n
            /\ Len(Bodies) <= n
            /\ \A k \in 1..Len(Bodies) :
                  /\ ~Bodies[k].panic
                  /\ Bodies[k].ret.index = k - 1
                  /\ Bodies[k].ret.value = ConfigValue(a[k])
                  /\ Bodies[k].ret.key = Empty
            /\ pc = "body" => Iterator_Index(heap, its[1]) = Len(Bodies)
            /\ pc \in {"end", "probed"} =>
                  /\ Len(Bodies) = n
                  /\ Iterator_Finished(heap, its[1])
                  /\ Iterator_Index(heap, its[1]) = n

\* C5: over a list of n elements the documented loop ends, after n = Count()
\* iterations; iteration k has Index() = k, Value() = element k and Key() = "",
\* Value() is never read at an index >= n, and after the end Finished() stays
\* true and Index() stays n whatever Next() calls follow; 0 <= Index() <= n always.
C5_ListLoop ==
    /\ []C5_Safe
    /\ (pc = "test" /\ val.v.t = "slice") ~> (pc = "end")

\* C5's case: a list of two elements, the loop done and Next() called after it
C5_Witness ==
    /\ pc = "probed"
    /\ val.v.t = "slice"
    /\ Len(Bodies) = 2
    /\ inp.extra > 0
    /\ Probes[1].ret.index = 2

StringKeyed(h, v) ==
    \/ v.t = "strmap" /\ v.v # 0
    \/ v.t = "imap" /\ \A k \in DOMAIN MapOf(h, v.v) : k.t = "string"

\* C6: over a map with string keys the documented loop runs once per key: no
\* key twice, none skipped, and Value() is what the map stores under Key().
C6_MapLoop ==
    (StringKeyed(heap, val.v) /\ HasIterator) =>
        LET m == Entries(heap, val.v)
        IN  /\ \A k \in 1..Len(Bodies) :
                  /\ ~Bodies[k].panic
                  /\ Bodies[k].ret.key \in DOMAIN m
                  /\ Bodies[k].ret.value = ConfigValue(m[Bodies[k].ret.key])
                  /\ \A j \in 1..(k - 1) : Bodies[j].ret.key # Bodies[k].ret.key
            /\ pc \in {"end", "probed"} =>
                  /\ {Bodies[k].ret.key : k \in 1..Len(Bodies)} = DOMAIN m
                  /\ Len(Bodies) = Cardinality(DOMAIN m)

\* C6's case: a generic-keyed map of two string keys, iterated to its end
C6_Witness ==
    /\ pc = "end"
    /\ val.v.t = "imap"
    /\ Len(Bodies) = 2
    /\ Bodies[1].ret.value # Bodies[2].ret.value

\* C7: the iterator of nil, an int, a string, a float or a bool is finished from
\* the start and after any Next(); the loop body never runs; Index() is 0, Key()
\* is "", Value() is unset, and no call ends in a runtime error.
C7_EmptyIterator ==
    (val.v.t \in ScalarTypes /\ HasIterator) =>
        /\ heap[its[1]].k = "EmptyIterator"
        /\ Len(Bodies) = 0
        /\ Read(heap, its[1]) =
              [ret |-> [finished |-> TRUE, index |-> 0, key |-> Empty, value |-> NoValue],
               panic |-> FALSE]
        /\ \A k \in 1..Len(Probes) :
              /\ ~Probes[k].panic
              /\ Probes[k].ret =
                    [finished |-> TRUE, index |-> 0, key |-> Empty, value |-> NoValue]

\* C7's case: the iterator of a string, read after the loop and two more Next()
C7_Witness ==
    /\ pc = "probed"
    /\ val.v.t = "string"
    /\ inp.extra > 0
    /\ Len(Probes) = 1

\* C9 (as claimed): when IsMap() is true, Iterate() gives one iteration per entry
\* of the map and every entry is retrievable with Get from Config(); when it is
\* false, the value gives no section.
C9_IsMapMeansUsable ==
    pc = "end" =>
        IF IsMap(val)
        THEN LET m == MapOf(heap, val.v.v)
                 c == Config(heap, val)
             IN  /\ Len(Bodies) = Cardinality(DOMAIN m)
                 /\ \A k \in DOMAIN m :
                       LET key == IF val.v.t = "imap" THEN k.v ELSE k
                       IN  /\ val.v.t = "imap" => k.t = "string"
                           /\ Get(c.h, c.ret, key).ret = ConfigValue(m[k])
        ELSE Config(heap, val).ret = NoConfig

(***************************************************************************)
(* The open specification: a client that makes the calls of the API in any *)
(* order, on conf, on one sub-configuration and on two iterators.  inp is  *)
(* history kept for the claims: the heap as Load left it, and for each     *)
(* iterator the value and key order it was made from and the number of     *)
(* Next() calls made on it.                                                *)
(***************************************************************************)
OpenTrees ==
    {LStrMap((sA :> x) @@ g) :
        x \in {VInt(1),
               LSlice(<<VInt(1), Nil>>),
               LStrMap((sA :> VInt(1)) @@ (sB :> VInt(2))),
               LStrMap(sB :> LSlice(<<VInt(1)>>)),
               LIMap((VStr(sA) :> VInt(1)) @@ (VStr(sB) :> VInt(2))),
               LIMap(VStr(sB) :> LIMap(VStr(sA) :> VInt(1))),
               LIMap((VStr(sB) :> VInt(1)) @@ (VInt(1) :> VInt(2)))},
        g \in PFun({sAB}, {VInt(2)})}

OpenKeys == {sA, sB, sAB}

Slots == {1, 2}

NoSource == [v |-> Nil, order |-> << >>]

\* the number of elements an iterator made from cv in the given order runs over
Size(h, cv, order) == IF cv.v.t = "slice" THEN Len(SliceOf(h, cv.v.v)) ELSE Len(order)

InitOpen ==
    /\ \E tree \in OpenTrees :
          LET r == Load(<< >>, tree)
          IN  /\ heap = r.h
              /\ conf = NewConfig(r.ret.v)
              /\ inp = [data |-> r.h, src |-> <<NoSource, NoSource>>, nexts |-> <<0, 0>>]
    /\ sub = NoConfig
    /\ val = NoValue
    /\ its = <<0, 0>>
    /\ pc = "open"
    /\ out = << >>

\* v = c.Get(key), on conf or on the sub-configuration
OpenGet ==
    /\ pc = "open"
    /\ \E c \in {conf, sub} : \E key \in OpenKeys :
          LET r == Get(heap, c, key)
          IN  /\ heap' = Collect(r.h, Len(heap))
              /\ val' = r.ret
    /\ UNCHANGED <<conf, sub, its, pc, inp, out>>

\* sub = v.Config(), once
OpenConfig ==
    /\ pc = "open"
    /\ sub = NoConfig
    /\ LET r == Config(heap, val)
       IN  /\ heap' = r.h
           /\ sub' = r.ret
    /\ UNCHANGED <<conf, val, its, pc, inp, out>>

\* v.IsSet(), v.IsSlice(), v.IsMap(), v.Raw(), v.Count() and the typed
\* accessors: none of them assigns anything
OpenInspect ==
    /\ pc = "open"
    /\ \E T \in Types : \E d \in Defaults(T) :
          LET r == [isSet |-> IsSet(val), isSlice |-> IsSlice(val), isMap |-> IsMap(val),
                    raw |-> Raw(val), count |-> Count(heap, val),
                    silent |-> Silent(T, val), def |-> Def(T, val, d),
                    must |-> Must(T, val)]
          IN  r.isSet \in BOOLEAN
    /\ UNCHANGED vars

\* its[j] = v.Iterate(), once for each j
OpenIterate ==
    /\ pc = "open"
    /\ \E j \in Slots : \E order \in IterateOrders(heap, val) :
          LET r == Iterate(heap, val, order)
          IN  /\ its[j] = 0
              /\ heap' = r.h
              /\ its' = [its EXCEPT ![j] = r.ret]
              /\ inp' = [inp EXCEPT !.src[j] = [v |-> val.v, order |-> order]]
    /\ UNCHANGED <<conf, sub, val, pc, out>>

\* its[j].Next()
OpenNext ==
    /\ pc = "open"
    /\ \E j \in Slots :
          /\ its[j] # 0
          /\ inp.nexts[j] < Size(heap, ConfigValue(inp.src[j].v), inp.src[j].order)
                            + MaxExtraNext
          /\ heap' = Iterator_Next(heap, its[j])
          /\ inp' = [inp EXCEPT !.nexts[j] = @ + 1]
    /\ UNCHANGED <<conf, sub, val, its, pc, out>>

\* its[j].Finished(), its[j].Index(), its[j].Key() and v = its[j].Value()
OpenRead ==
    /\ pc = "open"
    /\ \E j \in Slots :
          /\ its[j] # 0
          /\ LET r == Read(heap, its[j])
             IN  val' = IF r.panic THEN val ELSE r.ret.value
    /\ UNCHANGED <<heap, conf, sub, its, pc, inp, out>>

NextOpen ==
    OpenGet \/ OpenConfig \/ OpenInspect \/ OpenIterate \/ OpenNext \/ OpenRead

SpecOpen == InitOpen /\ [][NextOpen]_vars

(***************************************************************************)
(* Claims about the open specification.                                    *)
(***************************************************************************)
Min(a, b) == IF a < b THEN a ELSE b

\* what an iterator made from value src.v, with its keys in order src.order,
\* shows after k calls of Next(), read off the data as Load left it
ExpectRead(h, src, k) ==
    IF src.v.t = "slice"
    THEN LET a == SliceOf(h, src.v.v)
             i == Min(k, Len(a))
         IN  [finished |-> i = Len(a), index |-> i, key |-> Empty,
              value |-> IF i < Len(a) THEN ConfigValue(a[i + 1]) ELSE NoValue,
              panic |-> i = Len(a)]
    ELSE IF StringKeyed(h, src.v)
    THEN LET m == Entries(h, src.v)
             i == Min(k, Len(src.order))
         IN  [finished |-> i = Len(src.order), index |-> i,
              key |-> IF i < Len(src.order) THEN src.order[i + 1] ELSE Empty,
              value |-> IF i < Len(src.order) THEN ConfigValue(m[src.order[i + 1]])
                        ELSE NoValue,
              panic |-> i = Len(src.order)]
    ELSE [finished |-> TRUE, index |-> 0, key |-> Empty, value |-> NoValue,
          panic |-> FALSE]

ReadsAs(r, e) ==
    /\ r.panic = e.panic
    /\ r.ret.finished = e.finished
    /\ r.ret.index = e.index
    /\ ~e.panic => (r.ret.key = e.key /\ r.ret.value = e.value)

\* C8: whatever calls were made, the data handed to NewConfig is as it was, Get
\* on conf returns for every key what it returns on the data as loaded, and each
\* iterator stands where its own Next() calls put it, whatever was done with
\* the other iterator.
C8_ReadOnly ==
    /\ SubSeq(heap, 1, Len(inp.data)) = inp.data
    /\ \A key \in OpenKeys : Get(heap, conf, key).ret = Get(inp.data, conf, key).ret
    /\ \A j \in Slots :
          its[j] # 0 => ReadsAs(Read(heap, its[j]),
                                ExpectRead(inp.data, inp.src[j], inp.nexts[j]))

\* C8's case: two iterators over the same generic-keyed map, one advanced and the
\* other not, after a sub-configuration was made of that map
C8_Witness ==
    /\ its[1] # 0 /\ its[2] # 0
    /\ inp.src[1].v = inp.src[2].v
    /\ inp.src[1].v.t = "imap"
    /\ Len(inp.src[1].order) = 2
    /\ inp.nexts = <<2, 0>>
    /\ sub # NoConfig

====
